---- MODULE Spec2Model ----
(***************************************************************************)
(* Project decomposition pipeline of coding-flow:                          *)
(*   SoftwareUnitExtractorAgent.extract -> WorkPackagePlannerAgent.plan    *)
(*   -> UnitToWorkPackageMatcherAgent.match -> CoverageAuditorAgent.audit  *)
(*   -> coverage gate -> ConcurrencyOrchestratorAgent.plan_batches         *)
(*   -> DevPlanGeneratorAgent.generate -> DevDocumentExporterAgent.export  *)
(* driven by ProjectDevelopmentWorkflow.execute.                           *)
(*                                                                         *)
(* Strings are sequences of tokens.  The token alphabet is prefix-free     *)
(* (no token is a proper prefix of another token), so str.startswith,      *)
(* string equality and lexicographic comparison on the Python strings      *)
(* coincide with prefix, equality and lexicographic comparison on the      *)
(* token sequences.                                                        *)
(***************************************************************************)
EXTENDS Integers, Sequences, FiniteSets, TLC

VARIABLES
    pc,            \* position of the running call
    max_units,     \* WorkPackagePlannerAgent.max_units_per_package
    arch,          \* architecture_analysis handed to execute
    units,         \* software units (list of unit records)
    packages,      \* work packages (list of package records)
    match_out,     \* unbound_units / wrong_bindings of the last match
    coverage,      \* last coverage report
    concurrency,   \* last concurrency plan
    result,        \* the result dict of execute
    calls,         \* agents awaited so far, in order
    given,         \* the work_packages argument of the last match / plan_batches
    stripped,      \* a binding was removed between match and audit
    saved,         \* number of result files written by _save
    runs           \* what two successive calls of execute returned

vars == <<pc, max_units, arch, units, packages, match_out, coverage,
          concurrency, result, calls, given, stripped, saved, runs>>

----------------------------------------------------------------------------
(* Bounds of the model *)

\* total number of source items (components + tables + endpoints) of an
\* architecture description
MaxItems == 3
\* number of packages handed to a direct call of match
MaxMatchPkgs == 2
\* number of packages handed to a direct call of plan_batches
MaxBatchPkgs == 3
\* number of packages handed to a direct call of audit
MaxAuditPkgs == 3
\* number of source items of an architecture description that is run twice
MaxTwiceItems == 2

----------------------------------------------------------------------------
(* Strings *)

S(t) == <<t>>

IsPrefix(p, s) == Len(p) <= Len(s) /\ SubSeq(s, 1, Len(p)) = p

\* Python's order on str, restricted to the tokens of the model (code point
\* order of the first differing character).
TokenOrder ==
    <<" ", "#", "-", "/", "1", "2", "3", "4", "5", "6", "7", "8", "9", "::",
      "API", "COMP", "DB", "FIX", "GET", "POST", "WP", "api", "audit",
      "component", "database", "db", "ghost", "high", "low", "medium",
      "orders", "payment", "remedial", "system", "users", "x", "y">>

TokenRank(t) == CHOOSE i \in 1..Len(TokenOrder) : TokenOrder[i] = t

RECURSIVE StrLess(_, _)
StrLess(a, b) ==
    IF a = <<>> THEN b # <<>>
    ELSE IF b = <<>> THEN FALSE
    ELSE IF Head(a) = Head(b) THEN StrLess(Tail(a), Tail(b))
    ELSE TokenRank(Head(a)) < TokenRank(Head(b))

\* falsy values of Python's `a or b`: None, a missing key and "" all read <<>>
Or(a, b) == IF a # <<>> THEN a ELSE b

\* a dict key that is absent (dict.get(key, default) returns the default)
Absent == <<"\\absent">>
Get(v, default) == IF v = Absent THEN default ELSE v

\* The indices 1..n in the order a stable sort leaves them, Before(i, j)
\* meaning that the key of element i is strictly smaller than that of j
\* (list.sort and sorted are stable, also with reverse=True).
StableOrder(n, Before(_, _)) ==
    LET pos(i) == 1 + Cardinality({j \in 1..n :
                        Before(j, i) \/ (~Before(i, j) /\ j < i)})
    IN  [k \in 1..n |-> CHOOSE i \in 1..n : pos(i) = k]

\* the elements of s at the indices that satisfy Keep, in order
Filter(s, Keep(_)) ==
    LET idx == {i \in 1..Len(s) : Keep(i)}
        nth(k) == CHOOSE i \in idx : Cardinality({j \in idx : j < i}) = k - 1
    IN  [k \in 1..Cardinality(idx) |-> s[nth(k)]]

\* sorted(list(set_of_strings))
SortedStrs(set) ==
    LET pos(x) == 1 + Cardinality({y \in set : StrLess(y, x)})
    IN  [k \in 1..Cardinality(set) |-> CHOOSE x \in set : pos(x) = k]

RECURSIVE Flatten(_)
Flatten(ss) == IF ss = <<>> THEN <<>> ELSE Head(ss) \o Flatten(Tail(ss))

\* the distinct values of s in first-seen order (insertion order of a dict)
FirstSeen(s) == Filter(s, LAMBDA i : \A j \in 1..(i - 1) : s[j] # s[i])

Range(s) == {s[i] : i \in 1..Len(s)}

----------------------------------------------------------------------------
(* SoftwareUnitExtractorAgent *)

\* the keyword lists of _infer_risk; the Chinese keywords are written in
\* pinyin (renzheng, shouquan, jiami; shujuku, qianyi, suoyin)
HighKeywords == {"payment", "security", "renzheng", "shouquan", "jiami"}
MediumKeywords == {"order", "shujuku", "qianyi", "suoyin"}

\* the keywords that are substrings of the lower-cased token
KeywordsIn(tok) ==
    CASE tok = "payment" -> {"payment"}
      [] tok = "orders"  -> {"order"}
      [] OTHER           -> {}

\* `k in t` for a keyword k and a lower-cased text t
Contains(text, k) == \E i \in 1..Len(text) : k \in KeywordsIn(text[i])

_infer_risk(text) ==
    IF \E k \in HighKeywords : Contains(text, k) THEN "high"
    ELSE IF \E k \in MediumKeywords : Contains(text, k) THEN "medium"
    ELSE "low"

Unit(kind, type, name, context, text) ==
    [id           |-> <<kind, "::">> \o name,
     type         |-> type,
     name         |-> name,
     context      |-> context,
     dependencies |-> <<>>,
     risk_level   |-> _infer_risk(text)]

\* one iteration of the loop over system_components
ComponentUnit(comp) ==
    LET name == IF comp.dict THEN Or(comp.name, Or(comp.component, comp.str))
                ELSE comp.str
        context == IF comp.dict THEN Or(comp.context, Or(comp.service, S("system")))
                   ELSE S("system")
        description == IF comp.dict THEN comp.description ELSE <<>>
    IN  Unit("COMP", "component", name, context, Or(description, name))

\* one iteration of the loop over tables
TableUnit(tbl, db_design) ==
    LET name == IF tbl.dict THEN Or(tbl.name, tbl.str) ELSE tbl.str
        description == IF tbl.dict THEN tbl.description ELSE <<>>
    IN  Unit("DB", "db", name, Get(db_design.database_type, S("database")),
             Or(description, name))

\* one iteration of the loop over api_endpoints
EndpointUnit(ep, api_arch) ==
    LET path == Or(ep.path, Or(ep.url, ep.str))
        method == Or(ep.method, S("GET"))
        name == IF ep.dict THEN method \o S(" ") \o path ELSE ep.str
        description == IF ep.dict THEN ep.description ELSE <<>>
    IN  Unit("API", "api", name, Get(api_arch.api_style, S("api")),
             Or(description, name))

\* a key that also tells units of different risk_level apart
BrokenDedupeKey(u) ==
    S(u.type) \o S("::") \o u.name \o S("::") \o u.context \o S("::")
        \o S(u.risk_level)

\* the key _dedupe builds: f"{type}::{name}::{context}"
DedupeKey(u) == S(u.type) \o S("::") \o u.name \o S("::") \o u.context

RECURSIVE DedupeFrom(_, _, _)
DedupeFrom(us, i, seen) ==
    IF i > Len(us) THEN <<>>
    ELSE IF DedupeKey(us[i]) \in seen THEN DedupeFrom(us, i + 1, seen)
    ELSE <<us[i]>> \o DedupeFrom(us, i + 1, seen \cup {DedupeKey(us[i])})

_dedupe(us) == DedupeFrom(us, 1, {})

\* the units appended by the three loops, before _dedupe
RawUnits(a) ==
    [i \in 1..Len(a.system_components) |-> ComponentUnit(a.system_components[i])]
    \o [i \in 1..Len(a.tables) |-> TableUnit(a.tables[i], a)]
    \o [i \in 1..Len(a.api_endpoints) |-> EndpointUnit(a.api_endpoints[i], a)]

extract(a) == _dedupe(RawUnits(a))

(* Source items of the architecture descriptions the model runs on *)

Comp(name, component, context, service, description) ==
    [dict |-> TRUE, name |-> name, component |-> component, context |-> context,
     service |-> service, description |-> description, str |-> S("repr")]

BareItem(str) ==
    [dict |-> FALSE, name |-> <<>>, component |-> <<>>, context |-> <<>>,
     service |-> <<>>, description |-> <<>>, str |-> str]

CompPool ==
    { Comp(S("payment"), <<>>, S("x"), <<>>, <<>>),
      Comp(S("payment"), <<>>, S("y"), <<>>, <<>>),
      BareItem(S("users")),
      Comp(<<>>, S("users"), <<>>, S("x"), S("payment")),
      Comp(S("orders"), <<>>, S("x"), <<>>, S("users")),
      Comp(S("orders"), <<>>, S("x"), <<>>, <<>>) }

Table(name, description) ==
    [dict |-> TRUE, name |-> name, description |-> description, str |-> S("repr")]

BareTable(str) ==
    [dict |-> FALSE, name |-> <<>>, description |-> <<>>, str |-> str]

TablePool ==
    { Table(S("users"), <<>>), BareTable(S("orders")) }

Endpoint(path, url, method, description) ==
    [dict |-> TRUE, path |-> path, url |-> url, method |-> method,
     description |-> description, str |-> S("repr")]

EndpointPool ==
    { Endpoint(<<"/", "users">>, <<>>, S("GET"), <<>>),
      Endpoint(<<>>, <<"/", "users">>, <<>>, <<>>) }

\* the architecture descriptions of at most size source items
ArchsOfSize(size) ==
    UNION { { [system_components |-> cs, tables |-> ts, api_endpoints |-> es,
               database_type |-> dt, api_style |-> Absent] :
                cs \in [1..n[1] -> CompPool],
                ts \in [1..n[2] -> TablePool],
                es \in [1..n[3] -> EndpointPool],
                dt \in {Absent, S("x")} } :
            n \in {m \in (0..size) \X (0..size) \X (0..size) :
                      m[1] + m[2] + m[3] <= size} }

ArchInputs == ArchsOfSize(MaxItems)


----------------------------------------------------------------------------
(* WorkPackagePlannerAgent *)

\* default of max_units_per_package
DefaultMaxUnits == 3

\* str(n) for the chunk index of a package name
Dec(n) == ToString(n)

\* f"{n:03d}"
Pad3(n) ==
    IF n < 10 THEN <<"0", "0", ToString(n)>>
    ELSE IF n < 100 THEN <<"0", ToString(n)>>
    ELSE <<ToString(n)>>

\* f"{context}/{type}" of a unit: the bucket key of plan and the prefix that
\* _is_coherent looks for
UnitKey(u) == u.context \o S("/") \o S(u.type)

\* the keys of the dict `buckets`, in insertion order
BucketKeys(us) == FirstSeen([i \in 1..Len(us) |-> UnitKey(us[i])])

Bucket(us, key) == Filter(us, LAMBDA i : UnitKey(us[i]) = key)

\* sorted(units, key=risk_level) without reverse=True: ascending str order
BrokenSortByRisk(us) ==
    LET ord == StableOrder(Len(us), LAMBDA i, j :
                   StrLess(S(us[i].risk_level), S(us[j].risk_level)))
    IN  [k \in 1..Len(us) |-> us[ord[k]]]

\* sorted(units, key=risk_level, reverse=True): descending str order, stable
SortByRiskDesc(us) ==
    LET ord == StableOrder(Len(us), LAMBDA i, j :
                   StrLess(S(us[j].risk_level), S(us[i].risk_level)))
    IN  [k \in 1..Len(us) |-> us[ord[k]]]

\* list(range(0, n - 1, step)): the last chunk start is lost when it is the
\* only unit of its chunk
BrokenRangeFrom0(n, step) ==
    IF step > 0 /\ n > 1
    THEN [k \in 1..((n + step - 2) \div step) |-> (k - 1) * step]
    ELSE <<>>

\* list(range(0, n, step)) for step # 0 (step = 0 raises ValueError)
RangeFrom0(n, step) ==
    IF step > 0 THEN [k \in 1..((n + step - 1) \div step) |-> (k - 1) * step]
    ELSE <<>>

\* units_sorted[i:i + m + 1]: one element too many
BrokenSlice(s, i, m) ==
    SubSeq(s, i + 1, IF i + m + 1 > Len(s) THEN Len(s) ELSE i + m + 1)

\* units_sorted[i:i + m] for 0 <= i < Len(s) and m > 0, i counted from 0
Slice(s, i, m) ==
    SubSeq(s, i + 1, IF i + m > Len(s) THEN Len(s) ELSE i + m)

\* "name": key, without "#{index}"
BrokenBucketChunks(key, us, max) ==
    LET sorted == SortByRiskDesc(us)
        starts == RangeFrom0(Len(sorted), max)
    IN  [k \in 1..Len(starts) |->
            LET chunk == Slice(sorted, starts[k], max)
            IN  [name |-> key,
                 software_unit_ids |-> [c \in 1..Len(chunk) |-> chunk[c].id],
                 tags |-> [c \in 1..Len(chunk) |-> chunk[c].type]]]

\* the packages of one bucket, without their ids
BucketChunks(key, us, max) ==
    LET sorted == SortByRiskDesc(us)
        starts == RangeFrom0(Len(sorted), max)
    IN  [k \in 1..Len(starts) |->
            LET chunk == Slice(sorted, starts[k], max)
            IN  [name |-> key \o <<"#", Dec((starts[k] \div max) + 1)>>,
                 software_unit_ids |-> [c \in 1..Len(chunk) |-> chunk[c].id],
                 tags |-> [c \in 1..Len(chunk) |-> chunk[c].type]]]

PlannedPackage(n, c) ==
    [id                |-> <<"WP", "-">> \o Pad3(n),
     name              |-> c.name,
     software_unit_ids |-> c.software_unit_ids,
     status            |-> "planned",
     priority          |-> "medium",
     parallelizable    |-> TRUE,
     tags              |-> c.tags]

\* range(0, len(units_sorted), 0) raises ValueError in the first bucket
PlanRaises(us, max) == max = 0 /\ us # <<>>

plan(us, max) ==
    LET keys == BucketKeys(us)
        all == Flatten([k \in 1..Len(keys) |->
                            BucketChunks(keys[k], Bucket(us, keys[k]), max)])
    IN  [n \in 1..Len(all) |-> PlannedPackage(n, all[n])]


----------------------------------------------------------------------------
(* UnitToWorkPackageMatcherAgent *)

\* a check that looks at the context only
BrokenIsCoherent(pkg, unit) == IsPrefix(unit.context \o S("/"), pkg.name)

\* pkg.get("name", "").startswith(f"{context}/{type}")
_is_coherent(pkg, unit) == IsPrefix(UnitKey(unit), pkg.name)

HasUnit(us, uid) == \E i \in 1..Len(us) : us[i].id = uid

\* unit_index[uid]: a dict comprehension keeps the last unit of an id
UnitIndex(us, uid) ==
    us[CHOOSE i \in 1..Len(us) :
          us[i].id = uid /\ \A j \in (i + 1)..Len(us) : us[j].id # uid]

\* the keys of unit_index in iteration order
UnitIndexKeys(us) == FirstSeen([i \in 1..Len(us) |-> us[i].id])

\* the verdict of the validation loop on one binding; "missing" and
\* "incoherent" stand for the two reason texts of wrong_bindings
BindingVerdict(us, p, uid) ==
    IF ~HasUnit(us, uid) THEN "missing"
    ELSE IF ~_is_coherent(p, UnitIndex(us, uid)) THEN "incoherent"
    ELSE "valid"

\* step 1: p["software_unit_ids"] = valid_ids
ValidatePackage(us, p) ==
    [p EXCEPT !.software_unit_ids =
        Filter(p.software_unit_ids,
               LAMBDA i : BindingVerdict(us, p, p.software_unit_ids[i]) = "valid")]

\* the wrong_bindings entries of one package, in the order of its ids
WrongOfPackage(us, p) ==
    LET ids == p.software_unit_ids
        bad == Filter([i \in 1..Len(ids) |-> i],
                      LAMBDA i : BindingVerdict(us, p, ids[i]) # "valid")
    IN  [k \in 1..Len(bad) |->
            [package_id |-> p.id, unit_id |-> ids[bad[k]],
             reason |-> BindingVerdict(us, p, ids[bad[k]])]]

BoundUnits(pkgs) ==
    UNION {Range(pkgs[i].software_unit_ids) : i \in 1..Len(pkgs)}

\* candidates = list(work_packages): the coherence filter of line 37 is lost
BrokenCandidate(pkgs, u) ==
    LET cand == 1..Len(pkgs)
    IN  IF cand = {} THEN 0
        ELSE CHOOSE i \in cand : \A j \in cand :
                \/ Len(pkgs[i].software_unit_ids) < Len(pkgs[j].software_unit_ids)
                \/ /\ Len(pkgs[i].software_unit_ids) = Len(pkgs[j].software_unit_ids)
                   /\ i <= j

\* candidates.sort(key=len(software_unit_ids)); candidates[0]: the index of
\* the first coherent package with the fewest bound ids, 0 when there is none
Candidate(pkgs, u) ==
    LET cand == {i \in 1..Len(pkgs) : _is_coherent(pkgs[i], u)}
    IN  IF cand = {} THEN 0
        ELSE CHOOSE i \in cand : \A j \in cand :
                \/ Len(pkgs[i].software_unit_ids) < Len(pkgs[j].software_unit_ids)
                \/ /\ Len(pkgs[i].software_unit_ids) = Len(pkgs[j].software_unit_ids)
                   /\ i <= j

\* step 2: the loop over unit_index.items(); bound is computed once, before
\* the loop; acc holds the packages and the unbound ids so far
RECURSIVE Repair(_, _, _, _)
Repair(us, keys, bound, acc) ==
    IF keys = <<>> THEN acc
    ELSE LET uid == Head(keys)
             c == Candidate(acc.work_packages, UnitIndex(us, uid))
         IN  IF uid \in bound THEN Repair(us, Tail(keys), bound, acc)
             ELSE IF c # 0
             THEN Repair(us, Tail(keys), bound,
                    [acc EXCEPT !.work_packages[c].software_unit_ids =
                                    Append(@, uid)])
             ELSE Repair(us, Tail(keys), bound,
                    [acc EXCEPT !.unbound_units = Append(@, uid)])

match(us, pkgs) ==
    LET validated == [i \in 1..Len(pkgs) |-> ValidatePackage(us, pkgs[i])]
        wrong == Flatten([i \in 1..Len(pkgs) |-> WrongOfPackage(us, pkgs[i])])
        repaired == Repair(us, UnitIndexKeys(us), BoundUnits(validated),
                           [work_packages |-> validated, unbound_units |-> <<>>])
    IN  [work_packages  |-> repaired.work_packages,
         unbound_units  |-> repaired.unbound_units,
         wrong_bindings |-> wrong]

----------------------------------------------------------------------------
(* CoverageAuditorAgent *)

\* every uid of every package, in the order the nested loops visit them
AllBindings(pkgs) == Flatten([i \in 1..Len(pkgs) |-> pkgs[i].software_unit_ids])

\* duplicates[uid] after the loops: the number of times uid was visited,
\* for the ids visited more than once
DuplicateCount(pkgs, uid) ==
    Cardinality({i \in 1..Len(AllBindings(pkgs)) : AllBindings(pkgs)[i] = uid})

\* an empty unit collection counted as fully covered
BrokenPercentage(ncovered, ntotal) ==
    IF ntotal # 0 THEN [num |-> ncovered * 100, den |-> ntotal]
    ELSE [num |-> 100, den |-> 1]

\* len(covered) / len(unit_ids) * 100 as the exact fraction num / den
Percentage(ncovered, ntotal) ==
    IF ntotal # 0 THEN [num |-> ncovered * 100, den |-> ntotal]
    ELSE [num |-> 0, den |-> 1]

\* the report built from unit_ids and the set `covered` the loops collected
AuditReport(unit_ids, covered, pkgs) ==
    LET dups == {uid \in covered : DuplicateCount(pkgs, uid) > 1}
        sorted_dups == SortedStrs(dups)
    IN  [total_units         |-> Cardinality(unit_ids),
         covered_units       |-> Cardinality(covered),
         coverage_percentage |-> Percentage(Cardinality(covered),
                                            Cardinality(unit_ids)),
         uncovered_units     |-> SortedStrs(unit_ids \ covered),
         duplicate_coverage  |->
            [k \in 1..Len(sorted_dups) |->
                [unit_id |-> sorted_dups[k],
                 count |-> DuplicateCount(pkgs, sorted_dups[k])]]]

UnitIds(us) == {us[i].id : i \in 1..Len(us)}

\* covered seeded with the unit ids instead of set()
BrokenAudit(us, pkgs) ==
    AuditReport(UnitIds(us), UnitIds(us) \cup BoundUnits(pkgs), pkgs)

audit(us, pkgs) == AuditReport(UnitIds(us), BoundUnits(pkgs), pkgs)

\* a gate that lets every percentage pass
BrokenBelowFull(report) == report.coverage_percentage.num < 0

\* coverage.get("coverage_percentage", 0) < 100
BelowFull(report) ==
    report.coverage_percentage.num < 100 * report.coverage_percentage.den


----------------------------------------------------------------------------
(* ConcurrencyOrchestratorAgent *)

\* the context of the unit of the last bound id instead of the first
BrokenInferContext(pkg, us) ==
    IF pkg.software_unit_ids # <<>>
       /\ HasUnit(us, pkg.software_unit_ids[Len(pkg.software_unit_ids)])
    THEN us[CHOOSE i \in 1..Len(us) :
               us[i].id = pkg.software_unit_ids[Len(pkg.software_unit_ids)]].context
    ELSE S("default")

\* the context of the first unit in software_units whose id is the first
\* bound id of the package, "default" otherwise
_infer_context(pkg, us) ==
    IF pkg.software_unit_ids # <<>> /\ HasUnit(us, pkg.software_unit_ids[1])
    THEN us[CHOOSE i \in 1..Len(us) :
               /\ us[i].id = pkg.software_unit_ids[1]
               /\ \A j \in 1..(i - 1) : us[j].id # pkg.software_unit_ids[1]].context
    ELSE S("default")

\* {uid for uid in uids if uid.startswith("DB::")}
Resources(pkg) ==
    {uid \in Range(pkg.software_unit_ids) : IsPrefix(<<"DB", "::">>, uid)}

\* the keys of context_map in insertion order
Contexts(pkgs, us) == FirstSeen([i \in 1..Len(pkgs) |-> _infer_context(pkgs[i], us)])

\* context_map[ctx] left in input order
BrokenSortedGroup(pkgs, us, ctx) ==
    Filter(pkgs, LAMBDA i : _infer_context(pkgs[i], us) = ctx)

\* context_map[ctx] after pkgs.sort(key=len(software_unit_ids))
SortedGroup(pkgs, us, ctx) ==
    LET group == Filter(pkgs, LAMBDA i : _infer_context(pkgs[i], us) = ctx)
        ord == StableOrder(Len(group), LAMBDA i, j :
                   Len(group[i].software_unit_ids) < Len(group[j].software_unit_ids))
    IN  [k \in 1..Len(group) |-> group[ord[k]]]

\* resources of an accepted package that are never locked
BrokenLock(locked, resources) == locked

\* locked_resources |= resources
Lock(locked, resources) == locked \cup resources

\* a loop that also locks the resources of the package it excludes
RECURSIVE BrokenExcludeLocks(_, _)
BrokenExcludeLocks(group, acc) ==
    IF group = <<>> THEN acc
    ELSE LET p == Head(group)
             hit == acc.locked \cap Resources(p)
         IN  IF hit # {}
             THEN BrokenExcludeLocks(Tail(group),
                    [acc EXCEPT !.conflicts =
                                    Append(@, [package_id |-> p.id, resources |-> hit]),
                                !.locked = Lock(@, Resources(p))])
             ELSE BrokenExcludeLocks(Tail(group),
                    [acc EXCEPT !.locked = Lock(@, Resources(p)),
                                !.batch_ids = Append(@, p.id)])

\* a loop that records the conflict and goes on to accept the package
RECURSIVE BrokenAssign(_, _)
BrokenAssign(group, acc) ==
    IF group = <<>> THEN acc
    ELSE LET p == Head(group)
             hit == acc.locked \cap Resources(p)
         IN  BrokenAssign(Tail(group),
                [acc EXCEPT !.conflicts =
                                IF hit # {}
                                THEN Append(@, [package_id |-> p.id, resources |-> hit])
                                ELSE @,
                            !.locked = Lock(@, Resources(p)),
                            !.batch_ids = Append(@, p.id)])

\* the loop over the packages of one context; acc holds batch_ids,
\* locked_resources and the conflicts recorded so far (package id, resources)
RECURSIVE Assign(_, _)
Assign(group, acc) ==
    IF group = <<>> THEN acc
    ELSE LET p == Head(group)
             hit == acc.locked \cap Resources(p)
         IN  IF hit # {}
             THEN Assign(Tail(group),
                    [acc EXCEPT !.conflicts =
                        Append(@, [package_id |-> p.id, resources |-> hit])])
             ELSE Assign(Tail(group),
                    [acc EXCEPT !.locked = Lock(@, Resources(p)),
                                !.batch_ids = Append(@, p.id)])

\* what one context contributes: its batch and its conflicts
GroupPlan(pkgs, us, ctx) ==
    Assign(SortedGroup(pkgs, us, ctx),
           [batch_ids |-> <<>>, locked |-> {}, conflicts |-> <<>>])

\* batches: one per context whose batch_ids is not empty
Batches(pkgs, us) ==
    LET ctxs == Contexts(pkgs, us)
        per == [k \in 1..Len(ctxs) |-> GroupPlan(pkgs, us, ctxs[k]).batch_ids]
    IN  Filter(per, LAMBDA k : per[k] # <<>>)

\* the assignments conflicts[p["id"]] = ..., in the order they are made
ConflictWrites(pkgs, us) ==
    LET ctxs == Contexts(pkgs, us)
    IN  Flatten([k \in 1..Len(ctxs) |-> GroupPlan(pkgs, us, ctxs[k]).conflicts])

\* the dict conflicts as a function: a later write to a key replaces an
\* earlier one; the value is the set that list(locked & resources) lists
ConflictSets(pkgs, us) ==
    LET w == ConflictWrites(pkgs, us)
        last(id) == CHOOSE i \in 1..Len(w) :
                       w[i].package_id = id
                       /\ \A j \in (i + 1)..Len(w) : w[j].package_id # id
    IN  [id \in {w[i].package_id : i \in 1..Len(w)} |-> w[last(id)].resources]

\* list(a_set): the elements in an order that the set's hashing decides
Orderings(set) ==
    {q \in [1..Cardinality(set) -> set] : Range(q) = set}

\* the plans plan_batches can return
plan_batches(pkgs, us) ==
    LET cs == ConflictSets(pkgs, us)
    IN  { [batches |-> Batches(pkgs, us), conflicts |-> c] :
            c \in {f \in [DOMAIN cs -> UNION {Orderings(cs[id]) : id \in DOMAIN cs}] :
                     \A id \in DOMAIN cs : f[id] \in Orderings(cs[id])} }

----------------------------------------------------------------------------
(* DevPlanGeneratorAgent, DevDocumentExporterAgent *)

Max2(a, b) == IF a >= b THEN a ELSE b

generate(pkgs) ==
    [i \in 1..Len(pkgs) |->
        [package_id |-> pkgs[i].id,
         points |-> Max2(1, Len(pkgs[i].software_unit_ids))]]


----------------------------------------------------------------------------
(* ProjectDevelopmentWorkflow.execute *)

\* values of max_units_per_package the planner is constructed with
MaxUnitsChoices == {-1, 0, 1, 2, DefaultMaxUnits}

\* datetime.now().strftime('%H%M%S') when the remedial package is built
Clock == {"000000", "235959"}

NoArch == [system_components |-> <<>>, tables |-> <<>>, api_endpoints |-> <<>>,
           database_type |-> Absent, api_style |-> Absent]

NoMatch == [unbound_units |-> <<>>, wrong_bindings |-> <<>>]

NoCoverage == [total_units |-> 0, covered_units |-> 0,
               coverage_percentage |-> Percentage(0, 0),
               uncovered_units |-> <<>>, duplicate_coverage |-> <<>>]

NoPlan == [batches |-> <<>>, conflicts |-> <<>>]

NoSteps == [n \in {} |-> {}]

NewResult == [status |-> "in_progress", steps |-> NoSteps, error |-> <<>>,
              final_result |-> <<>>]

Init ==
    /\ pc = "idle"
    /\ max_units = DefaultMaxUnits
    /\ arch = NoArch
    /\ units = <<>>
    /\ packages = <<>>
    /\ match_out = NoMatch
    /\ coverage = NoCoverage
    /\ concurrency = NoPlan
    /\ result = NewResult
    /\ calls = <<>>
    /\ given = <<>>
    /\ stripped = FALSE
    /\ saved = 0
    /\ runs = <<>>

\* result["steps"][name] = record
WithStep(r, name, record) == [r EXCEPT !.steps = (name :> record) @@ @]

\* an except branch that starts the result over
BrokenFailed(r, message) ==
    [r EXCEPT !.status = "failed", !.error = S(message), !.steps = NoSteps]

\* the except branch: status, error, end_time, _save
Failed(r, message) == [r EXCEPT !.status = "failed", !.error = S(message)]

\* a remedial package that takes only the first uncovered unit
BrokenRemedialPackage(time, uncovered) ==
    [id                |-> <<"WP", "-", "FIX", "-", time>>,
     name              |-> S("remedial"),
     software_unit_ids |-> SubSeq(uncovered, 1, 1),
     status            |-> "planned",
     priority          |-> "high",
     parallelizable    |-> TRUE,
     tags              |-> S("remedial")]

\* lines 58-70
RemedialPackage(time, uncovered) ==
    [id                |-> <<"WP", "-", "FIX", "-", time>>,
     name              |-> S("remedial"),
     software_unit_ids |-> uncovered,
     status            |-> "planned",
     priority          |-> "high",
     parallelizable    |-> TRUE,
     tags              |-> S("remedial")]

\* lines 36-47: the result is created and the extractor awaited
Execute(a) ==
    /\ pc = "idle"
    /\ pc' = "plan"
    /\ arch' = a
    /\ units' = extract(a)
    /\ result' = WithStep(NewResult, "software_units",
                          [status |-> "completed", count |-> Len(extract(a))])
    /\ calls' = <<"extract">>
    /\ UNCHANGED <<runs, max_units, packages, match_out, coverage, concurrency, given,
                   stripped, saved>>

\* line 49: the planner is awaited; a ValueError ends in the except branch.
\* m is the max_units_per_package the workflow's planner was constructed
\* with, drawn when the planner first reads it.
Plan(m) ==
    /\ pc = "plan"
    /\ calls' = Append(calls, "plan")
    /\ arch' = NoArch
    /\ max_units' = m
    /\ IF PlanRaises(units, m)
       THEN /\ result' = Failed(result, "ValueError")
            /\ saved' = saved + 1
            /\ pc' = "done"
            /\ UNCHANGED packages
       ELSE /\ packages' = plan(units, m)
            /\ pc' = "match"
            /\ UNCHANGED <<result, saved>>
    /\ UNCHANGED <<runs, units, match_out, coverage, concurrency, given, stripped>>

\* lines 50-53: the matcher is awaited and its outcome recorded
Match ==
    /\ pc = "match"
    /\ calls' = Append(calls, "match")
    /\ given' = packages
    /\ LET out == match(units, packages)
       IN  /\ packages' = out.work_packages
           /\ match_out' = [unbound_units |-> out.unbound_units,
                            wrong_bindings |-> out.wrong_bindings]
           /\ result' = WithStep(
                  WithStep(result, "work_packages",
                      [status |-> "completed", count |-> Len(out.work_packages)]),
                  "matching",
                  [status |-> "completed", unbound |-> out.unbound_units,
                   wrong |-> out.wrong_bindings])
    /\ pc' = "audit"
    /\ UNCHANGED <<runs, max_units, arch, units, coverage, concurrency, stripped, saved>>

RemoveAt(s, j) == SubSeq(s, 1, j - 1) \o SubSeq(s, j + 1, Len(s))

\* lines 18-34 and 51: the matcher is a constructor argument and execute
\* audits whatever list its result carries under "work_packages"; a supplied
\* matcher hands back the list with one binding dropped from a package
Strip(i, j) ==
    /\ pc = "audit"
    /\ ~stripped
    /\ i \in 1..Len(packages)
    /\ j \in 1..Len(packages[i].software_unit_ids)
    /\ packages' = [packages EXCEPT ![i].software_unit_ids = RemoveAt(@, j)]
    /\ stripped' = TRUE
    /\ UNCHANGED <<runs, pc, max_units, arch, units, match_out, coverage, concurrency,
                   result, calls, given, saved>>

\* lines 74-77: the gate; below 100 the exception ends in the except branch
GateCheck(report) ==
    IF BelowFull(report)
    THEN /\ result' = Failed(result, "gate")
         /\ saved' = saved + 1
         /\ pc' = "done"
    ELSE /\ result' = WithStep(result, "coverage",
                               [status |-> "completed", report |-> report])
         /\ pc' = "schedule"
         /\ UNCHANGED saved

\* the remedial package is appended but the second audit is forgotten: the
\* gate sees the report of the first audit
BrokenAuditStep(time) ==
    /\ pc = "audit"
    /\ calls' = Append(calls, "audit")
    /\ coverage' = audit(units, packages)
    /\ packages' = IF audit(units, packages).uncovered_units # <<>>
                   THEN Append(packages,
                          RemedialPackage(time, audit(units, packages).uncovered_units))
                   ELSE packages
    /\ GateCheck(audit(units, packages))
    /\ UNCHANGED <<runs, max_units, arch, units, match_out, concurrency, given, stripped>>

\* lines 55-71: the first audit; with uncovered units the remedial package is
\* appended and the second audit awaited
Audit(time) ==
    /\ pc = "audit"
    /\ calls' = Append(calls, "audit")
    /\ coverage' = audit(units, packages)
    /\ IF audit(units, packages).uncovered_units # <<>>
       THEN /\ packages' = Append(packages,
                   RemedialPackage(time, audit(units, packages).uncovered_units))
            /\ pc' = "reaudit"
            /\ UNCHANGED <<result, saved>>
       ELSE /\ GateCheck(audit(units, packages))
            /\ UNCHANGED packages
    /\ UNCHANGED <<runs, max_units, arch, units, match_out, concurrency, given, stripped>>

\* line 72 and the gate
ReAudit ==
    /\ pc = "reaudit"
    /\ calls' = Append(calls, "audit")
    /\ coverage' = audit(units, packages)
    /\ GateCheck(audit(units, packages))
    /\ UNCHANGED <<runs, max_units, arch, units, packages, match_out, concurrency,
                   given, stripped>>

\* lines 79-80
Schedule ==
    /\ pc = "schedule"
    /\ calls' = Append(calls, "plan_batches")
    /\ given' = packages
    /\ \E cp \in plan_batches(packages, units) :
          /\ concurrency' = cp
          /\ result' = WithStep(result, "concurrency",
                                [status |-> "completed", plan |-> cp])
    /\ pc' = "dev_plan"
    /\ UNCHANGED <<runs, max_units, arch, units, packages, match_out, coverage,
                   stripped, saved>>

\* lines 82-83
DevPlan ==
    /\ pc = "dev_plan"
    /\ calls' = Append(calls, "generate")
    /\ result' = WithStep(result, "dev_plan",
                          [status |-> "completed", count |-> Len(generate(packages))])
    /\ pc' = "export"
    /\ UNCHANGED <<runs, max_units, arch, units, packages, match_out, coverage,
                   concurrency, given, stripped, saved>>

\* lines 85-101
Export ==
    /\ pc = "export"
    /\ calls' = Append(calls, "export")
    /\ result' = [result EXCEPT
                    !.status = "completed",
                    !.final_result = <<[software_units  |-> units,
                                        work_packages   |-> packages,
                                        coverage_report |-> coverage,
                                        concurrency_plan |-> concurrency,
                                        dev_plans       |-> generate(packages)]>>]
    /\ saved' = saved + 1
    /\ pc' = "done"
    /\ UNCHANGED <<runs, max_units, arch, units, packages, match_out, coverage,
                   concurrency, given, stripped>>

Next ==
    \/ pc = "idle" /\ \E a \in ArchInputs : Execute(a)
    \/ pc = "plan" /\ \E m \in MaxUnitsChoices : Plan(m)
    \/ Match
    \/ pc = "audit" /\ \E i \in 1..Len(packages) :
            \E j \in 1..Len(packages[i].software_unit_ids) : Strip(i, j)
    \/ \E t \in Clock : Audit(t)
    \/ ReAudit
    \/ Schedule
    \/ DevPlan
    \/ Export

Spec == Init /\ [][Next]_vars


----------------------------------------------------------------------------
(* Two calls of execute with the same architecture description *)

\* lines 74-80: the gate and the orchestrator, for the packages pkgs and the
\* coverage report of the last audit
OutcomesOfGate(us, pkgs, report) ==
    IF BelowFull(report)
    THEN {[status |-> "failed", units |-> us, packages |-> pkgs,
           coverage |-> report, concurrency |-> NoPlan]}
    ELSE {[status |-> "completed", units |-> us, packages |-> pkgs,
           coverage |-> report, concurrency |-> cp] :
                cp \in plan_batches(pkgs, us)}

\* lines 55-72: the first audit and, with uncovered units, the remedial
\* package and the second audit
OutcomesOfAudit(us, matched, time) ==
    UNION { IF first.uncovered_units = <<>>
            THEN OutcomesOfGate(us, matched, first)
            ELSE UNION { UNION { OutcomesOfGate(us, pkgs, report) :
                                    report \in {audit(us, pkgs)} } :
                            pkgs \in {Append(matched,
                                        RemedialPackage(time, first.uncovered_units))} } :
                first \in {audit(us, matched)} }

\* what a call of execute can return for the units us, a planner constructed
\* with max_units_per_package m and the remedial package stamped with time:
\* the status with the units, packages, coverage report and concurrency
\* plan the call ended with
Outcomes(us, m, time) ==
    IF PlanRaises(us, m)
    THEN {[status |-> "failed", units |-> us, packages |-> <<>>,
           coverage |-> NoCoverage, concurrency |-> NoPlan]}
    ELSE UNION { OutcomesOfAudit(us, matched, time) :
                    matched \in {match(us, planned).work_packages : planned \in {plan(us, m)}} }

\* a caller awaits execute(a) twice, at the times t1 and t2
ExecuteTwice(a, m, t1, t2) ==
    /\ pc = "idle"
    /\ arch' = a
    /\ max_units' = m
    /\ \E us \in {extract(a)} :
          \E r1 \in Outcomes(us, m, t1) :
             \E r2 \in Outcomes(us, m, t2) : runs' = <<r1, r2>>
    /\ saved' = saved + 2
    /\ pc' = "ran_twice"
    /\ UNCHANGED <<units, packages, match_out, coverage, concurrency, result,
                   calls, given, stripped>>

NextTwice ==
    pc = "idle" /\ \E a \in ArchsOfSize(MaxTwiceItems) : \E m \in MaxUnitsChoices :
            \E t1 \in Clock : \E t2 \in Clock : ExecuteTwice(a, m, t1, t2)

SpecTwice == Init /\ [][NextTwice]_vars

----------------------------------------------------------------------------
(* Direct calls of match and plan_batches with hand-made packages *)

\* unit collections of the direct calls: what extract returns for two
\* architecture descriptions, and no units at all
DirectUnits ==
    { extract([system_components |-> <<Comp(S("payment"), <<>>, S("x"), <<>>, <<>>),
                                       Comp(S("payment"), <<>>, S("y"), <<>>, <<>>)>>,
               tables |-> <<Table(S("users"), <<>>), BareTable(S("orders"))>>,
               api_endpoints |-> <<>>,
               database_type |-> S("x"), api_style |-> Absent]),
      extract([system_components |-> <<Comp(S("orders"), <<>>, S("x"), <<>>, <<>>)>>,
               tables |-> <<BareTable(S("orders")), Table(S("users"), <<>>)>>,
               api_endpoints |-> <<>>,
               database_type |-> Absent, api_style |-> Absent]),
      <<>> }

DBorders == <<"DB", "::", "orders">>
DBusers == <<"DB", "::", "users">>
DBghost == <<"DB", "::", "ghost">>
COMPpayment == <<"COMP", "::", "payment">>
COMPorders == <<"COMP", "::", "orders">>

\* software_unit_ids of the hand-made packages given to match
MatchIds ==
    { <<>>, <<COMPpayment>>, <<DBorders>>, <<DBusers, COMPpayment>>,
      <<DBghost, DBusers>>, <<COMPorders>> }

\* software_unit_ids of the hand-made packages given to plan_batches
DirectIds ==
    { <<>>, <<DBorders>>, <<DBusers, DBorders>>, <<DBorders, DBusers>>,
      <<COMPpayment, DBorders>>, <<DBusers, COMPpayment>>, <<COMPorders>>,
      <<DBghost, DBusers>>, <<COMPpayment, DBusers, DBorders>> }

\* software_unit_ids of the hand-made packages given to audit
AuditIds ==
    { <<>>, <<DBorders>>, <<DBusers, DBorders>>, <<DBghost, DBusers>>,
      <<COMPpayment, DBusers>>, <<DBusers, DBusers>> }

\* names of the hand-made packages given to match
MatchNames ==
    { <<"x", "/", "component", "#", "1">>, <<"x", "/", "component", "#", "2">>,
      <<"x", "/", "db", "#", "1">>, <<"y", "/", "component", "#", "1">> }

HandMade(n, name, ids) ==
    [id                |-> <<"WP", "-">> \o Pad3(n),
     name              |-> name,
     software_unit_ids |-> ids,
     status            |-> "planned",
     priority          |-> "medium",
     parallelizable    |-> TRUE,
     tags              |-> <<>>]

\* lists of at most n hand-made packages with distinct ids
DirectPackages(n, names, ids) ==
    UNION { { [i \in 1..k |-> HandMade(i, f[i][1], f[i][2])] :
                f \in [1..k -> names \X ids] } : k \in 0..n }

\* a test awaits matcher.match(units, packages)
CallMatch(us, pkgs) ==
    /\ pc = "idle"
    /\ units' = us
    /\ given' = pkgs
    /\ LET out == match(us, pkgs)
       IN  /\ packages' = out.work_packages
           /\ match_out' = [unbound_units |-> out.unbound_units,
                            wrong_bindings |-> out.wrong_bindings]
    /\ calls' = <<"match">>
    /\ pc' = "match_returned"
    /\ UNCHANGED <<runs, max_units, arch, coverage, concurrency, result, stripped, saved>>

NextMatch ==
    pc = "idle" /\ \E us \in DirectUnits :
            \E pkgs \in DirectPackages(MaxMatchPkgs, MatchNames, MatchIds) : CallMatch(us, pkgs)

SpecMatch == Init /\ [][NextMatch]_vars

\* a test awaits orchestrator.plan_batches(packages, units)
CallPlanBatches(us, pkgs) ==
    /\ pc = "idle"
    /\ units' = us
    /\ given' = pkgs
    /\ packages' = pkgs
    /\ concurrency' \in plan_batches(pkgs, us)
    /\ calls' = <<"plan_batches">>
    /\ pc' = "batches_returned"
    /\ UNCHANGED <<runs, max_units, arch, match_out, coverage, result, stripped, saved>>

\* a test awaits auditor.audit(units, packages) on hand-made packages
CallAuditOnly(us, pkgs) ==
    /\ pc = "idle"
    /\ units' = us
    /\ given' = pkgs
    /\ packages' = pkgs
    /\ coverage' = audit(us, pkgs)
    /\ calls' = <<"audit">>
    /\ pc' = "audit_returned"
    /\ UNCHANGED <<runs, max_units, arch, match_out, concurrency, result, stripped, saved>>

NextDirect ==
    pc = "idle" /\ \E us \in DirectUnits :
            \E pkgs \in DirectPackages(MaxBatchPkgs, {S("remedial")}, DirectIds) :
                CallPlanBatches(us, pkgs)

SpecDirect == Init /\ [][NextDirect]_vars

NextAudit ==
    pc = "idle" /\ \E us \in DirectUnits :
            \E pkgs \in DirectPackages(MaxAuditPkgs, {S("remedial")}, AuditIds) :
                CallAuditOnly(us, pkgs)

SpecAudit == Init /\ [][NextAudit]_vars


----------------------------------------------------------------------------
(* Properties of execute *)

AfterGate == {"schedule", "dev_plan", "export", "done"}

Called(name) == \E i \in 1..Len(calls) : calls[i] = name

IdsOf(p) == {p.software_unit_ids[k] : k \in 1..Len(p.software_unit_ids)}

\* the packages whose id is WP-FIX-...
FixIdx(pkgs) == {i \in 1..Len(pkgs) : SubSeq(pkgs[i].id, 1, 4) = <<"WP", "-", "FIX", "-">>}

\* the unit ids that no package other than a WP-FIX package binds
MissingWithoutFix(us, pkgs) ==
    {us[i].id : i \in 1..Len(us)}
        \ UNION {IdsOf(pkgs[i]) : i \in (1..Len(pkgs)) \ FixIdx(pkgs)}

\* C1: when execute has finished on a non-empty unit collection, the result
\* is failed, or it is completed and every unit id is among the
\* software_unit_ids of a work package of the final result.
C1_CoverageTotality ==
    (pc = "done" /\ units # <<>>) =>
        \/ result.status = "failed"
        \/ /\ result.status = "completed"
           /\ Len(result.final_result) = 1
           /\ \A i \in 1..Len(units) :
                \E k \in 1..Len(result.final_result[1].work_packages) :
                    units[i].id \in IdsOf(result.final_result[1].work_packages[k])

\* a completed run in which a binding had been removed before the audit
C1_Witness ==
    /\ pc = "done"
    /\ result.status = "completed"
    /\ stripped
    /\ Len(units) >= 2

\* C4: once the gate has seen a coverage below 100, execute has ended as
\* failed with an error, the orchestrator, the plan generator and the
\* exporter were not called, and the result holds neither a concurrency step
\* nor a final_result.
C4_GateFailureStops ==
    ( /\ pc \in AfterGate
      /\ Called("audit")
      /\ coverage.coverage_percentage.num < 100 * coverage.coverage_percentage.den )
    => /\ pc = "done"
       /\ result.status = "failed"
       /\ result.error # <<>>
       /\ ~Called("plan_batches") /\ ~Called("generate") /\ ~Called("export")
       /\ "concurrency" \notin DOMAIN result.steps
       /\ result.final_result = <<>>
       /\ concurrency = NoPlan

\* the gate has failed
C4_Witness ==
    /\ pc = "done"
    /\ Called("audit")
    /\ coverage.coverage_percentage.num < 100 * coverage.coverage_percentage.den
    /\ result.status = "failed"

\* C5: from the first audit on, there is a WP-FIX package exactly when the
\* other packages leave a unit id unbound; it is then the only one and the
\* last package, has priority high and binds exactly the ids the others leave
\* unbound, each once; and after the second audit the report has no
\* uncovered unit and a coverage of 100.
C5_RemedialPackage ==
    (pc \in AfterGate \cup {"reaudit"} /\ Called("audit")) =>
        LET fix == FixIdx(packages)
            missing == MissingWithoutFix(units, packages)
        IN  /\ (fix # {}) <=> (missing # {})
            /\ fix \in {{}, {Len(packages)}}
            /\ fix # {} =>
                LET r == packages[Len(packages)]
                IN  /\ r.priority = "high"
                    /\ IdsOf(r) = missing
                    /\ Len(r.software_unit_ids) = Cardinality(missing)
                    /\ Len(packages) = result.steps["work_packages"].count + 1
            /\ (fix # {} /\ pc # "reaudit") =>
                /\ coverage.uncovered_units = <<>>
                /\ coverage.coverage_percentage.num
                       = 100 * coverage.coverage_percentage.den
                /\ coverage.covered_units = coverage.total_units
                /\ result.status # "failed"
                /\ calls[4] = "audit" /\ calls[5] = "audit"

\* one unit was stripped from a package, the gate built the remedial package
\* for it and the second audit has run
C5_Witness ==
    /\ pc = "schedule"
    /\ stripped
    /\ FixIdx(packages) = {Len(packages)}
    /\ Len(packages) >= 2
    /\ Len(packages[Len(packages)].software_unit_ids) = 1

\* C6: no two units that extract emits have the same id.
C6_UnitIdsUnique ==
    \A i \in 1..Len(units) : \A j \in 1..Len(units) :
        i # j => units[i].id # units[j].id

Triple(u) == <<u.type, u.name, u.context>>

\* C7: the units extract returns have pairwise different (type, name,
\* context) triples; each is the first source item of its triple, and the
\* units are in the order of those source items.
C7_NoDuplicateTriple ==
    pc = "plan" =>
        LET raw == RawUnits(arch)
            first(k) == CHOOSE i \in 1..Len(raw) :
                            /\ Triple(raw[i]) = Triple(units[k])
                            /\ \A j \in 1..(i - 1) : Triple(raw[j]) # Triple(units[k])
        IN  /\ \A i \in 1..Len(units) : \A j \in 1..Len(units) :
                    i # j => Triple(units[i]) # Triple(units[j])
            /\ \A k \in 1..Len(units) :
                    /\ \E i \in 1..Len(raw) : Triple(raw[i]) = Triple(units[k])
                    /\ units[k] = raw[first(k)]
            /\ \A k \in 1..(Len(units) - 1) : first(k) < first(k + 1)

\* a source item was dropped as a duplicate and two units were kept
C7_Witness ==
    /\ pc = "plan"
    /\ Len(units) >= 2
    /\ Len(units) < Len(RawUnits(arch))

\* number of bindings of uid over all packages
Bindings(pkgs, uid) ==
    Cardinality({<<i, k>> \in (1..Len(pkgs)) \X (1..(MaxItems + 1)) :
                    k <= Len(pkgs[i].software_unit_ids)
                    /\ pkgs[i].software_unit_ids[k] = uid})

\* C8: in what plan returns (max_units_per_package >= 1), each input unit id
\* is bound exactly once over all packages, and every bound id is the id of
\* an input unit.
C8_ExactlyOnePackage ==
    (pc = "match" /\ max_units >= 1) =>
        /\ \A i \in 1..Len(units) : Bindings(packages, units[i].id) = 1
        /\ \A i \in 1..Len(packages) :
                IdsOf(packages[i]) \subseteq {units[k].id : k \in 1..Len(units)}

UnitsOfKey(us, key) == {i \in 1..Len(us) : us[i].context \o <<"/", us[i].type>> = key}

PackagesOfKey(pkgs, key) ==
    {i \in 1..Len(pkgs) : \E n \in 1..Len(pkgs) :
        pkgs[i].name = key \o <<"#", ToString(n)>>}

\* C9: every package plan returns (max_units_per_package >= 1) binds at
\* least one and at most max_units_per_package ids and is named after a
\* bucket, and a bucket of n units has ceil(n / max_units_per_package)
\* packages.
C9_PackageSize ==
    (pc = "match" /\ max_units >= 1) =>
        /\ \A i \in 1..Len(packages) :
              /\ Len(packages[i].software_unit_ids) >= 1
              /\ Len(packages[i].software_unit_ids) <= max_units
              /\ \E k \in 1..Len(units) :
                    i \in PackagesOfKey(packages, units[k].context \o <<"/", units[k].type>>)
        /\ \A k \in 1..Len(units) :
              LET key == units[k].context \o <<"/", units[k].type>>
                  n == Cardinality(UnitsOfKey(units, key))
              IN  Cardinality(PackagesOfKey(packages, key))
                      = (n + max_units - 1) \div max_units

\* a bucket of three units was cut into two packages
C9_Witness ==
    /\ pc = "match"
    /\ max_units = 2
    /\ \E k \in 1..Len(units) :
          LET key == units[k].context \o <<"/", units[k].type>>
          IN  /\ Cardinality(UnitsOfKey(units, key)) = 3
              /\ Cardinality(PackagesOfKey(packages, key)) = 2


----------------------------------------------------------------------------
(* Properties of match *)

\* C3: after match, every id bound to a package is the id of a unit whose
\* "{context}/{type}" is a prefix of the package name.
C3_PackageCoherence ==
    pc = "match_returned" =>
        \A i \in 1..Len(packages) : \A uid \in IdsOf(packages[i]) :
            \E k \in 1..Len(units) :
                /\ units[k].id = uid
                /\ IsPrefix(units[k].context \o <<"/", units[k].type>>,
                            packages[i].name)

\* match dropped a binding of a unit that does not fit the package name and
\* appended an orphaned unit to a package
C3_Witness ==
    /\ pc = "match_returned"
    /\ \E w \in 1..Len(match_out.wrong_bindings) :
            match_out.wrong_bindings[w].reason = "incoherent"
    /\ \E i \in 1..Len(packages) : IdsOf(packages[i]) \ IdsOf(given[i]) # {}

----------------------------------------------------------------------------
(* Properties of plan_batches *)

DBIds(p) == {uid \in IdsOf(p) : Len(uid) >= 2 /\ SubSeq(uid, 1, 2) = <<"DB", "::">>}

InBatch(cp, b, id) == \E r \in 1..Len(cp.batches[b]) : cp.batches[b][r] = id

InSomeBatch(cp, id) == \E b \in 1..Len(cp.batches) : InBatch(cp, b, id)

\* C2: no two distinct packages of a returned batch have a DB:: id in common.
C2_BatchDisjoint ==
    pc = "batches_returned" =>
        \A b \in 1..Len(concurrency.batches) :
            \A i \in 1..Len(packages) : \A j \in 1..Len(packages) :
                ( /\ i # j
                  /\ InBatch(concurrency, b, packages[i].id)
                  /\ InBatch(concurrency, b, packages[j].id) )
                => DBIds(packages[i]) \cap DBIds(packages[j]) = {}

\* a batch of two packages that each hold a DB:: id, next to a conflict
C2_Witness ==
    /\ pc = "batches_returned"
    /\ DOMAIN concurrency.conflicts # {}
    /\ \E b \in 1..Len(concurrency.batches) :
        \E i \in 1..Len(packages) : \E j \in 1..Len(packages) :
            /\ i # j
            /\ InBatch(concurrency, b, packages[i].id)
            /\ InBatch(concurrency, b, packages[j].id)
            /\ DBIds(packages[i]) # {}
            /\ DBIds(packages[j]) # {}

\* package i is considered before package j: fewer bound ids, or as many and
\* earlier in the input
Earlier(pkgs, i, j) ==
    \/ Len(pkgs[i].software_unit_ids) < Len(pkgs[j].software_unit_ids)
    \/ /\ Len(pkgs[i].software_unit_ids) = Len(pkgs[j].software_unit_ids)
       /\ i < j

SameContext(pkgs, us, i, j) == _infer_context(pkgs[i], us) = _infer_context(pkgs[j], us)

BatchPlaces(cp, id) ==
    Cardinality({<<b, r>> \in (1..Len(cp.batches)) \X (1..Len(packages)) :
                    r <= Len(cp.batches[b]) /\ cp.batches[b][r] = id})

\* C11: plan_batches returns a plan, and every input package id is either at
\* exactly one place of exactly one batch or a key of conflicts, never both;
\* batches and conflicts name input packages only and no batch is empty.
C11_BatchOrConflict ==
    pc = "batches_returned" =>
        /\ plan_batches(given, units) # {}
        /\ \A i \in 1..Len(packages) :
              \/ /\ BatchPlaces(concurrency, packages[i].id) = 1
                 /\ packages[i].id \notin DOMAIN concurrency.conflicts
              \/ /\ BatchPlaces(concurrency, packages[i].id) = 0
                 /\ packages[i].id \in DOMAIN concurrency.conflicts
        /\ DOMAIN concurrency.conflicts \subseteq {packages[i].id : i \in 1..Len(packages)}
        /\ \A b \in 1..Len(concurrency.batches) :
              /\ concurrency.batches[b] # <<>>
              /\ \A r \in 1..Len(concurrency.batches[b]) :
                    \E i \in 1..Len(packages) : packages[i].id = concurrency.batches[b][r]

\* three packages: two batches of one package each and one conflict
C11_Witness ==
    /\ pc = "batches_returned"
    /\ Len(packages) = 3
    /\ Len(concurrency.batches) = 2
    /\ Cardinality(DOMAIN concurrency.conflicts) = 1


----------------------------------------------------------------------------
(* Properties of the result of execute *)

\* C12: the result execute returns is completed or failed, never
\* in_progress; a failed result carries an error and still holds the
\* software_units record, and, when the failure came after matching (the
\* coverage gate), the work_packages and matching records as they were
\* written.
C12_FailureKeepsSteps ==
    pc = "done" =>
        /\ result.status \in {"completed", "failed"}
        /\ result.status = "failed" =>
            /\ result.error # <<>>
            /\ result.final_result = <<>>
            /\ "software_units" \in DOMAIN result.steps
            /\ result.steps["software_units"]
                    = [status |-> "completed", count |-> Len(units)]
            /\ IF Called("match")
               THEN /\ DOMAIN result.steps = {"software_units", "work_packages", "matching"}
                    /\ result.steps["work_packages"].status = "completed"
                    /\ result.steps["work_packages"].count
                            = Len(packages) - Cardinality(FixIdx(packages))
                    /\ result.steps["matching"]
                            = [status |-> "completed",
                               unbound |-> match_out.unbound_units,
                               wrong |-> match_out.wrong_bindings]
               ELSE DOMAIN result.steps = {"software_units"}

\* execute has returned after the coverage gate failed, with the three
\* records of the stages before it
C12_Witness ==
    /\ pc = "done"
    /\ result.status = "failed"
    /\ result.error = S("gate")
    /\ DOMAIN result.steps = {"software_units", "work_packages", "matching"}


----------------------------------------------------------------------------
(* Properties of audit *)

\* C13: in the report of audit, 0 <= covered_units <= total_units and the
\* coverage_percentage lies between 0 and 100.
C13_PercentageRange ==
    pc = "audit_returned" =>
        /\ 0 <= coverage.covered_units
        /\ coverage.covered_units <= coverage.total_units
        /\ 0 <= coverage.coverage_percentage.num
        /\ coverage.coverage_percentage.num <= 100 * coverage.coverage_percentage.den

\* the packages that bind uid
PackagesBinding(pkgs, uid) == {i \in 1..Len(pkgs) : uid \in IdsOf(pkgs[i])}

\* C14: duplicate_coverage lists exactly the ids bound to more than one
\* package, each once, in ascending order of the id, each with the number
\* of its bindings as count.
C14_DuplicateCoverage ==
    pc = "audit_returned" =>
        LET d == coverage.duplicate_coverage
        IN  /\ {d[k].unit_id : k \in 1..Len(d)}
                  = {uid \in BoundUnits(packages) :
                        Cardinality(PackagesBinding(packages, uid)) > 1}
            /\ \A k \in 1..(Len(d) - 1) : StrLess(d[k].unit_id, d[k + 1].unit_id)
            /\ \A k \in 1..Len(d) : d[k].count = Bindings(packages, d[k].unit_id)


----------------------------------------------------------------------------
(* Properties of extract *)

\* the source items of an architecture description in the order the three
\* loops of extract visit them
SourceItems(a) == a.system_components \o a.tables \o a.api_endpoints

\* description = item.get("description") or "" ; "" for an item that is no dict
DescriptionOf(item) == IF item.dict THEN item.description ELSE <<>>

\* the risk level of a name together with a description
RiskOfBoth(name, description) ==
    IF \E k \in HighKeywords : Contains(name, k) \/ Contains(description, k)
    THEN "high"
    ELSE IF \E k \in MediumKeywords : Contains(name, k) \/ Contains(description, k)
    THEN "medium"
    ELSE "low"

\* C15: the risk_level of every unit extract returns is the level of the
\* name together with the description of its source item (the first item of
\* its triple): high when either holds a high keyword, else medium when
\* either holds a medium keyword, else low.
C15_RiskFromNameAndDescription ==
    pc = "plan" =>
        \A k \in 1..Len(units) :
            \E i \in 1..Len(RawUnits(arch)) :
                /\ Triple(RawUnits(arch)[i]) = Triple(units[k])
                /\ \A j \in 1..(i - 1) : Triple(RawUnits(arch)[j]) # Triple(units[k])
                /\ units[k].risk_level
                      = RiskOfBoth(units[k].name, DescriptionOf(SourceItems(arch)[i]))


----------------------------------------------------------------------------
(* Properties of repeated runs *)

IdList(s) == [i \in 1..Len(s) |-> s[i].id]

\* C16: two calls of execute with the same architecture description return
\* the same unit ids, the same package ids, the same coverage numbers and
\* the same batches.
C16_Deterministic ==
    pc = "ran_twice" =>
        /\ runs[1].status = runs[2].status
        /\ IdList(runs[1].units) = IdList(runs[2].units)
        /\ IdList(runs[1].packages) = IdList(runs[2].packages)
        /\ runs[1].coverage.total_units = runs[2].coverage.total_units
        /\ runs[1].coverage.covered_units = runs[2].coverage.covered_units
        /\ runs[1].coverage.coverage_percentage = runs[2].coverage.coverage_percentage
        /\ runs[1].concurrency.batches = runs[2].concurrency.batches


----------------------------------------------------------------------------
(* Properties of the exclusion rule of plan_batches *)

\* the DB:: ids package i shares with the packages of its context that were
\* considered before it and are in a batch
SharedWithAccepted(cp, pkgs, us, i) ==
    DBIds(pkgs[i]) \cap
        UNION {DBIds(pkgs[j]) : j \in {j \in 1..Len(pkgs) :
                    /\ j # i
                    /\ SameContext(pkgs, us, i, j)
                    /\ Earlier(pkgs, j, i)
                    /\ InSomeBatch(cp, pkgs[j].id)}}

\* C17: a package is in no batch exactly when it shares a DB:: id with a
\* package of its context accepted before it; its conflicts entry then
\* lists exactly the shared ids, each once, and a package in a batch has no
\* conflicts entry.
C17_ExcludedIffOverlap ==
    pc = "batches_returned" =>
        \A i \in 1..Len(packages) :
            LET shared == SharedWithAccepted(concurrency, packages, units, i)
            IN  /\ ~InSomeBatch(concurrency, packages[i].id) <=> shared # {}
                /\ packages[i].id \in DOMAIN concurrency.conflicts <=> shared # {}
                /\ shared # {} =>
                      /\ Range(concurrency.conflicts[packages[i].id]) = shared
                      /\ Len(concurrency.conflicts[packages[i].id]) = Cardinality(shared)

\* a package in a batch that shares a DB:: id with a package of its context
\* that was considered before it and excluded
C17_Witness ==
    /\ pc = "batches_returned"
    /\ \E i \in 1..Len(packages) : \E j \in 1..Len(packages) :
          /\ SameContext(packages, units, i, j)
          /\ Earlier(packages, j, i)
          /\ ~InSomeBatch(concurrency, packages[j].id)
          /\ InSomeBatch(concurrency, packages[i].id)
          /\ DBIds(packages[i]) \cap DBIds(packages[j]) # {}


----------------------------------------------------------------------------
(* Properties of the repair step of match *)

\* no package name starts with the "{context}/{type}" of unit k
NoCoherentPackage(pkgs, us, k) ==
    \A i \in 1..Len(pkgs) :
        ~IsPrefix(us[k].context \o <<"/", us[k].type>>, pkgs[i].name)

\* C18: after match, unbound_units holds exactly the ids of the units that
\* no package name is coherent with; every other unit is bound in at least
\* one package, and no unit is both bound and listed in unbound_units.
C18_UnboundExact ==
    pc = "match_returned" =>
        /\ Range(match_out.unbound_units)
              = {units[k].id : k \in {k \in 1..Len(units) :
                                        NoCoherentPackage(packages, units, k)}}
        /\ \A k \in 1..Len(units) :
              ~NoCoherentPackage(packages, units, k)
                  => units[k].id \in BoundUnits(packages)
        /\ Range(match_out.unbound_units) \cap BoundUnits(packages) = {}


\* the ids the repair step appended to package i
Appended(us, before, after, i) ==
    SubSeq(after[i].software_unit_ids,
           Len(ValidatePackage(us, before[i]).software_unit_ids) + 1,
           Len(after[i].software_unit_ids))

\* the position at which the repair loop reaches uid
FirstPos(us, uid) == CHOOSE k \in 1..Len(us) :
                        us[k].id = uid /\ \A j \in 1..(k - 1) : us[j].id # uid

\* the number of ids package j holds when the repair loop reaches uid
LoadAt(us, before, after, j, uid) ==
    Len(ValidatePackage(us, before[j]).software_unit_ids)
    + Cardinality({q \in 1..Len(Appended(us, before, after, j)) :
            FirstPos(us, Appended(us, before, after, j)[q]) < FirstPos(us, uid)})

\* C19: the id of every unit that validation leaves unbound and that some
\* package is coherent with is appended exactly once, to one package; that
\* package is coherent with the unit and holds, when the id is appended, no
\* more ids than any other coherent package, and as many only as later ones.
C19_RepairFewestFirst ==
    pc = "match_returned" =>
        LET bound == UNION {Range(ValidatePackage(units, given[i]).software_unit_ids) :
                                i \in 1..Len(given)}
            key(k) == units[k].context \o <<"/", units[k].type>>
            app(i) == Appended(units, given, packages, i)
            load(i, k) == LoadAt(units, given, packages, i, units[k].id)
        IN  \A k \in 1..Len(units) :
              (units[k].id \notin bound /\ ~NoCoherentPackage(given, units, k)) =>
                \E i \in 1..Len(packages) :
                    /\ IsPrefix(key(k), packages[i].name)
                    /\ Cardinality({q \in 1..Len(app(i)) : app(i)[q] = units[k].id}) = 1
                    /\ \A j \in (1..Len(packages)) \ {i} :
                            units[k].id \notin Range(app(j))
                    /\ \A j \in 1..Len(packages) :
                            IsPrefix(key(k), packages[j].name) =>
                                \/ load(i, k) < load(j, k)
                                \/ load(i, k) = load(j, k) /\ i <= j


----------------------------------------------------------------------------
(* Properties of the validation step of match *)

\* some unit has the id uid
Known(us, uid) == \E k \in 1..Len(us) : us[k].id = uid

\* some unit has the id uid and a "{context}/{type}" that the name of p
\* starts with
Fits(us, p, uid) ==
    \E k \in 1..Len(us) :
        us[k].id = uid /\ IsPrefix(us[k].context \o <<"/", us[k].type>>, p.name)

\* the bindings of p that are to survive, in their order
Survivors(us, p) ==
    Filter(p.software_unit_ids, LAMBDA q : Fits(us, p, p.software_unit_ids[q]))

\* the wrong_bindings entries due for p, in the order of its bindings
Removed(us, p) ==
    LET ids == p.software_unit_ids
        bad == Filter([q \in 1..Len(ids) |-> q], LAMBDA q : ~Fits(us, p, ids[q]))
    IN  [n \in 1..Len(bad) |->
            [package_id |-> p.id, unit_id |-> ids[bad[n]],
             reason |-> IF Known(us, ids[bad[n]]) THEN "incoherent" ELSE "missing"]]

\* C20: match keeps, in their order, exactly the bindings whose id is the id
\* of a unit coherent with the package name (what follows them in a package
\* was appended by the repair step: ids that no package kept); wrong_bindings
\* holds one entry per removed binding, package by package, with the reason;
\* and no package holds an id that is no unit's.
C20_ValidationExact ==
    pc = "match_returned" =>
        LET kept == UNION {Range(Survivors(units, given[i])) : i \in 1..Len(given)}
        IN  /\ Len(packages) = Len(given)
            /\ \A i \in 1..Len(given) :
                  LET s == Survivors(units, given[i])
                      ids == packages[i].software_unit_ids
                  IN  /\ Len(ids) >= Len(s)
                      /\ SubSeq(ids, 1, Len(s)) = s
                      /\ \A q \in (Len(s) + 1)..Len(ids) : ids[q] \notin kept
            /\ match_out.wrong_bindings
                  = Flatten([i \in 1..Len(given) |-> Removed(units, given[i])])
            /\ \A i \in 1..Len(packages) : \A uid \in IdsOf(packages[i]) :
                  Known(units, uid)

\* ---------------------------------------------------------------------
\* planner and matcher called in a row on their own
\* ---------------------------------------------------------------------
MaxRepairItems == 3

\* a caller awaits planner.plan(units), drops package i from the list it got
\* (i = 0: drops none) and awaits matcher.match(units, rest)
CallPlanMatch(a, m, i) ==
    /\ pc = "idle"
    /\ \E us \in {extract(a)} :
         /\ ~PlanRaises(us, m)
         /\ \E planned \in {plan(us, m)} :
              /\ i \in 0..Len(planned)
              /\ \E rest \in {IF i = 0 THEN planned ELSE RemoveAt(planned, i)} :
                   \E out \in {match(us, rest)} :
                      /\ units' = us
                      /\ given' = rest
                      /\ packages' = out.work_packages
                      /\ match_out' = [unbound_units |-> out.unbound_units,
                                       wrong_bindings |-> out.wrong_bindings]
    /\ arch' = a
    /\ max_units' = m
    /\ calls' = <<"plan", "match">>
    /\ pc' = "repair_returned"
    /\ UNCHANGED <<runs, coverage, concurrency, result, stripped, saved>>

NextRepair ==
    pc = "idle" /\ \E a \in ArchsOfSize(MaxRepairItems) :
            \E m \in {1, 2, DefaultMaxUnits} : \E i \in 0..MaxRepairItems :
                CallPlanMatch(a, m, i)

SpecRepair == Init /\ [][NextRepair]_vars

\* C21: a package the planner created never holds more than
\* max_units_per_package unit ids, also after match has appended the ids of
\* orphaned units to it.
C21_SizeAfterRepair ==
    pc = "repair_returned" =>
        \A i \in 1..Len(packages) :
            Len(packages[i].software_unit_ids) <= max_units

\* a package name of the form "{context}/{type}#{index}"
NameForm(name) ==
    \E c \in 1..Len(name) :
        /\ c > 1
        /\ Len(name) = c + 3
        /\ name[c] = "/"
        /\ name[c + 1] \in {"component", "db", "api"}
        /\ name[c + 2] = "#"
        /\ name[c + 3] \in {Dec(n) : n \in 1..(MaxItems + 1)}

\* C22: in the package collection that execute hands to the scheduler, every
\* package name has the form "{context}/{type}#{index}" and every bound unit
\* id refers to an existing unit whose "{context}/{type}" is a prefix of the
\* name of the package that holds it.
C22_ScheduledCoherence ==
    Called("plan_batches") =>
        \A i \in 1..Len(given) :
            /\ NameForm(given[i].name)
            /\ \A uid \in IdsOf(given[i]) : \E k \in 1..Len(units) :
                  units[k].id = uid /\ IsPrefix(UnitKey(units[k]), given[i].name)

\* C22 as amended: every package handed to the scheduler other than the
\* remedial one has a name of that form and binds only ids of existing
\* units coherent with its name; the remedial package, if any, comes last,
\* is named "remedial" and binds only ids of existing units.
C22_PlannerPart ==
    Called("plan_batches") =>
        \A i \in 1..Len(given) :
            IF i \in FixIdx(given)
            THEN /\ i = Len(given)
                 /\ given[i].name = S("remedial")
                 /\ \A uid \in IdsOf(given[i]) : HasUnit(units, uid)
            ELSE /\ NameForm(given[i].name)
                 /\ \A uid \in IdsOf(given[i]) : \E k \in 1..Len(units) :
                       units[k].id = uid
                       /\ IsPrefix(UnitKey(units[k]), given[i].name)

C22_Witness ==
    /\ Called("plan_batches")
    /\ Len(given) >= 2
    /\ FixIdx(given) = {Len(given)}
    /\ given[1].software_unit_ids # <<>>
    /\ given[Len(given)].software_unit_ids # <<>>

\* the context the claim gives a package: that of the unit its first bound id
\* names, "default" when there is no such unit
NamedContext(pkg, us) ==
    LET named == {k \in 1..Len(us) :
                     /\ pkg.software_unit_ids # <<>>
                     /\ us[k].id = Head(pkg.software_unit_ids)}
    IN  IF named = {} THEN S("default")
        ELSE us[CHOOSE k \in named : \A j \in named : k <= j].context

\* C23: plan_batches groups the packages by the context of the unit their
\* first bound id names ("default" without bound ids); every group yields
\* exactly one batch, which is not empty, so there are as many batches as
\* distinct contexts, in the order in which the contexts first occur.
C23_OneBatchPerContext ==
    pc = "batches_returned" =>
        LET ctxs == FirstSeen([i \in 1..Len(given) |-> NamedContext(given[i], units)])
            b == concurrency.batches
        IN  /\ Len(b) = Len(ctxs)
            /\ \A k \in 1..Len(b) :
                  /\ b[k] # <<>>
                  /\ \A q \in 1..Len(b[k]) : \E i \in 1..Len(given) :
                        /\ given[i].id = b[k][q]
                        /\ NamedContext(given[i], units) = ctxs[k]

C23_Witness ==
    /\ pc = "batches_returned"
    /\ Len(concurrency.batches) = 2
    /\ DOMAIN concurrency.conflicts # {}
    /\ \E i \in 1..Len(given) : given[i].software_unit_ids = <<>>

\* the ids of the units of a bucket with one risk level, in first-seen order
IdsOfRisk(us, key, risk) ==
    LET sel == Filter(us, LAMBDA i : UnitKey(us[i]) = key /\ us[i].risk_level = risk)
    IN  [k \in 1..Len(sel) |-> sel[k].id]

\* the ids bound by the packages of a bucket, package after package
IdsOfBucket(pkgs, key) ==
    LET sel == Filter(pkgs, LAMBDA i : i \in PackagesOfKey(pkgs, key))
    IN  Flatten([k \in 1..Len(sel) |-> sel[k].software_unit_ids])

\* C24: within each bucket plan orders the units by descending lexical
\* risk_level (medium, then low, then high), units of one level in
\* first-seen order, and the packages of the bucket are the contiguous
\* chunks of that order, numbered from 1.
C24_RiskOrder ==
    (pc = "match" /\ max_units >= 1) =>
        \A u \in 1..Len(units) :
            LET key == UnitKey(units[u])
                sel == Filter(packages, LAMBDA i : i \in PackagesOfKey(packages, key))
            IN  /\ IdsOfBucket(packages, key)
                     = IdsOfRisk(units, key, "medium")
                       \o IdsOfRisk(units, key, "low")
                       \o IdsOfRisk(units, key, "high")
                /\ \A k \in 1..Len(sel) :
                      /\ sel[k].name = key \o <<"#", Dec(k)>>
                      /\ k < Len(sel) => Len(sel[k].software_unit_ids) = max_units

\* a bucket of three units that came in the order high, low, high and was
\* cut into the packages (low, high) and (high)
C24_Witness ==
    /\ pc = "match"
    /\ max_units = 2
    /\ \E a, b, c \in 1..Len(units) :
          /\ a < b /\ b < c
          /\ UnitKey(units[a]) = UnitKey(units[b])
          /\ UnitKey(units[b]) = UnitKey(units[c])
          /\ units[a].risk_level = "high"
          /\ units[b].risk_level = "low"
          /\ units[c].risk_level = "high"
          /\ IdsOfBucket(packages, UnitKey(units[a]))
                = <<units[b].id, units[a].id, units[c].id>>

\* the agent calls of one execute, in the order of its statements
Stages == <<"extract", "plan", "match", "audit", "plan_batches", "generate", "export">>

\* how often execute has awaited the agent call `name`
TimesCalled(name) == Cardinality({i \in 1..Len(calls) : calls[i] = name})

\* calls without the second of two consecutive audits
OncePerStage ==
    IF Len(calls) >= 5 /\ calls[4] = "audit" /\ calls[5] = "audit"
    THEN SubSeq(calls, 1, 4) \o SubSeq(calls, 6, Len(calls))
    ELSE calls

\* C25: execute runs its stages in the order extract, plan, match, audit,
\* gate, schedule (then generate, export), each at most once and none
\* re-entered, except that audit runs a second time, right after the first,
\* exactly when the gate has appended a remedial package; there is never
\* more than one remedial package.
C25_StageOrder ==
    /\ [](/\ IsPrefix(OncePerStage, Stages)
          /\ TimesCalled("audit") <= 2
          /\ Cardinality(FixIdx(packages)) <= 1
          /\ TimesCalled("audit") = 2 => FixIdx(packages) # {}
          /\ pc = "reaudit" => (TimesCalled("audit") = 1 /\ FixIdx(packages) # {})
          /\ (FixIdx(packages) # {} /\ pc # "reaudit") => TimesCalled("audit") = 2
          /\ Called("plan_batches") => result.status # "failed")
    /\ [][\/ calls' = calls
          \/ \E s \in Range(Stages) : calls' = Append(calls, s)]_vars

C25_Witness ==
    /\ pc = "done"
    /\ result.status = "completed"
    /\ calls = <<"extract", "plan", "match", "audit", "audit",
                 "plan_batches", "generate", "export">>
    /\ FixIdx(packages) = {Len(packages)}

\* execute ran with the agents it constructs itself and a planner whose
\* max_units_per_package is at least 1
OwnWiring == ~stripped /\ max_units >= 1

\* C26: with its own wiring (max_units_per_package >= 1, packages passed
\* through its matcher) the concurrency plan of execute never holds a
\* conflict: every DB:: unit id is bound to exactly one package, conflicts
\* is empty and every package id is in exactly one batch.
C26_NoConflictOwnWiring ==
    (Called("plan_batches") /\ OwnWiring) =>
        /\ DOMAIN concurrency.conflicts = {}
        /\ \A k \in 1..Len(units) :
              IsPrefix(<<"DB", "::">>, units[k].id)
                  => Bindings(given, units[k].id) = 1
        /\ \A i \in 1..Len(given) :
              /\ \A uid \in DBIds(given[i]) : Cardinality(PackagesBinding(given, uid)) = 1
              /\ BatchPlaces(concurrency, given[i].id) = 1

\* two packages with one table each were scheduled
C26_Witness ==
    /\ Called("plan_batches")
    /\ OwnWiring
    /\ max_units = 1
    /\ \E i, j \in 1..Len(given) :
          /\ i # j
          /\ DBIds(given[i]) # {}
          /\ DBIds(given[j]) # {}
          /\ \E b \in 1..Len(concurrency.batches) :
                /\ InBatch(concurrency, b, given[i].id)
                /\ InBatch(concurrency, b, given[j].id)

\* C27: with its own wiring (max_units_per_package >= 1) execute never takes
\* the remedial branch: the matcher reports no unbound unit, the first audit
\* reports no uncovered unit and no WP-FIX package is ever created.
C27_NoRemedialOwnWiring ==
    OwnWiring =>
        /\ Called("match") => match_out.unbound_units = <<>>
        /\ Called("audit") => (coverage.uncovered_units = <<>>
                               /\ TimesCalled("audit") = 1)
        /\ FixIdx(packages) = {}
        /\ pc # "reaudit"

\* a run that ended without a remedial package although the matcher had
\* dropped a binding
C27_Witness ==
    /\ OwnWiring
    /\ pc = "done"
    /\ result.status = "completed"
    /\ Len(units) >= 2
    /\ match_out.wrong_bindings # <<>>
    /\ FixIdx(packages) = {}

\* execute ended in the except branch with the exception of line 75
FailedAtGate == pc = "done" /\ result.status = "failed" /\ result.error = S("gate")

\* C28: execute fails at the coverage gate if and only if the extracted unit
\* collection is empty: with no unit the auditor reports a coverage of 0 and
\* the result is failed; with at least one unit and
\* max_units_per_package >= 1 the gate passes and the run completes.
C28_GateFailsIffNoUnits ==
    pc = "done" =>
        /\ FailedAtGate <=> units = <<>>
        /\ units = <<>> =>
              /\ coverage.coverage_percentage.num = 0
              /\ coverage.total_units = 0
              /\ ~Called("plan_batches")
        /\ (units # <<>> /\ max_units >= 1) =>
              /\ result.status = "completed"
              /\ ~BelowFull(coverage)
              /\ Called("plan_batches")

C28_Witness ==
    /\ FailedAtGate
    /\ units = <<>>
    /\ max_units >= 1
    /\ calls = <<"extract", "plan", "match", "audit">>

\* C29: no DB:: unit id is held by packages that plan_batches placed in two
\* different batches of one plan.
C29_BatchesDisjoint ==
    pc = "batches_returned" =>
        \A b \in 1..Len(concurrency.batches) : \A c \in 1..Len(concurrency.batches) :
            b # c =>
                \A i \in 1..Len(given) : \A j \in 1..Len(given) :
                    ( /\ InBatch(concurrency, b, given[i].id)
                      /\ InBatch(concurrency, c, given[j].id) )
                    => DBIds(given[i]) \cap DBIds(given[j]) = {}

\* C30: match is idempotent: a second match on the packages the first one
\* returned, with the same units, changes no package's software_unit_ids,
\* reports no wrong binding and reports the unbound units of the first run.
C30_MatchIdempotent ==
    pc = "match_returned" =>
        \A again \in {match(units, packages)} :
            /\ Len(again.work_packages) = Len(packages)
            /\ \A i \in 1..Len(packages) :
                  again.work_packages[i].software_unit_ids
                      = packages[i].software_unit_ids
            /\ again.wrong_bindings = <<>>
            /\ again.unbound_units = match_out.unbound_units

\* the first match dropped a binding, appended an orphaned id to a package
\* and left a unit unbound
C30_Witness ==
    /\ pc = "match_returned"
    /\ match_out.wrong_bindings # <<>>
    /\ match_out.unbound_units # <<>>
    /\ \E i \in 1..Len(packages) :
          Appended(units, given, packages, i) # <<>>

====
